---------------------------- MODULE Spec2Model ----------------------------
(***************************************************************************)
(* A model of src/spec.go: the conversion of a parsed OpenAPI document     *)
(* (openapi3.Swagger) into a flat Design.                                  *)
(*                                                                         *)
(* The document's schemas live in a heap, `schemas`: a schema node is an   *)
(* *openapi3.Schema, and two properties that resolve the same $ref share   *)
(* one node.  traverse writes Title and Nullable of the nodes it visits,   *)
(* so the heap is part of the state.  A Go map is ranged over in an order  *)
(* the runtime picks; every such order is a choice of the action.          *)
(***************************************************************************)
EXTENDS Integers, Sequences, FiniteSets, TLC

VARIABLES
    schemas,     \* the schema heap of the document: node -> openapi3.Schema
    swagger,     \* the rest of the document: SecuritySchemes and Paths
    pc,          \* where the running call is
    parameters,  \* the []*Parameter traverse returned
    walk,        \* for each returned record, the schema position it was emitted for
    resources,   \* the []*Resource being built by Transform
    idx,         \* index of the next resource getResourceContent fills
    design       \* the Design Transform returned

vars == <<schemas, swagger, pc, parameters, walk, resources, idx, design>>

\* no schema: a nil Items
NULL == 0

-----------------------------------------------------------------------------
(* Bounds of the model.                                                    *)

\* number of schema nodes of a document
MaxNodes == 3

\* number of operations of a document
MaxOps == 2

\* number of properties of the widest schema of a document
MaxProps == 4

\* property names a schema may declare
Keys == {"id", "name"}

\* type tags a schema of the document may carry: a schema that declares
\* properties is tagged object, one with items array, and a schema with
\* neither carries one of LeafTags (a scalar, an object tag in another letter
\* case, a tag traverse does not know)
ObjectTags == {"object"}
ArrayTags == {"array"}
LeafTags == {"string", "Object", "file"}

-----------------------------------------------------------------------------
(* strings.ToLower, on the strings the documents of the model use.         *)

ToLower(s) ==
    CASE s = "Object" -> "object"
      [] s = "Array" -> "array"
      [] s = "String" -> "string"
      [] s = "Integer" -> "integer"
      [] s = "Header" -> "header"
      [] s = "Query" -> "query"
      [] s = "Path" -> "path"
      [] s = "GET" -> "get"
      [] s = "POST" -> "post"
      [] s = "PUT" -> "put"
      [] s = "PATCH" -> "patch"
      [] s = "DELETE" -> "delete"
      [] s = "HEAD" -> "head"
      [] s = "OPTIONS" -> "options"
      [] s = "TRACE" -> "trace"
      [] s = "CONNECT" -> "connect"
      [] OTHER -> s

\* a Parameter, as new(Parameter) leaves it
Parameter ==
    [Parent |-> "", Name |-> "", Location |-> "", DataType |-> "",
     Required |-> FALSE, Description |-> ""]

contains(array, key) == \E i \in 1..Len(array) : array[i] = key

setNode(h, schema) ==
    [Parameter EXCEPT !.Name = h[schema].Title,
                      !.DataType = ToLower(h[schema].Type),
                      !.Location = "body",
                      !.Required = ~h[schema].Nullable,
                      !.Description = h[schema].Description]

setPlain(h, schema) ==
    [Parameter EXCEPT !.Name = h[schema].Title,
                      !.DataType = ToLower(h[schema].Type),
                      !.Location = "body",
                      !.Required = ~h[schema].Nullable,
                      !.Description = h[schema].Description]

-----------------------------------------------------------------------------
(* traverse.  Its result is the record list, the heap as the call leaves  *)
(* it, and `walk`: the position (the property names from the root schema,  *)
(* and the node) each record was emitted for.  `ord` gives, per node, the  *)
(* order in which the range over its Properties yields the keys.          *)

\* parameter.Parent = parent
setParentSelf(parameter, parent) == [parameter EXCEPT !.Parent = parameter.Name]

setParent(parameter, parent) == [parameter EXCEPT !.Parent = parent]

\* parameters = append(parameters, more...)
appendFront(list, more) == more \o list

appendAll(list, more) == list \o more

\* the loop `for key, property := range Properties`: Title and Nullable of
\* every property are written, in iteration order keys
RECURSIVE rangeProperties(_, _, _, _)
rangeProperties(h, owner, keys, i) ==
    IF i > Len(keys) THEN h
    ELSE LET key == keys[i]
             property == h[owner].Properties[key]
             h1 == [h EXCEPT ![property].Title = key,
                             ![property].Nullable = ~contains(h[owner].Required, key)]
         IN rangeProperties(h1, owner, keys, i + 1)

\* the slice `properties` the loop appends to (the key is kept for walk)
propertySlice(h, owner, keys) ==
    [i \in 1..Len(keys) |-> [key |-> keys[i], ref |-> h[owner].Properties[keys[i]]]]

\* the comparator handed to sort.Slice: it reads properties[i] only
lessInverted(h, properties, i, j) ==
    h[properties[i].ref].Type = "object" \/ h[properties[i].ref].Type = "array"

less(h, properties, i, j) ==
    IF h[properties[i].ref].Type = "object" \/ h[properties[i].ref].Type = "array"
    THEN FALSE
    ELSE TRUE

Swap(data, i, j) == [data EXCEPT ![i] = data[j], ![j] = data[i]]

\* sort.Slice on a slice of at most 12 elements is an insertion sort (before
\* Go 1.19 preceded by a gap-6 pass that does nothing below 7 elements)
RECURSIVE insertLeft(_, _, _)
insertLeft(h, data, j) ==
    IF j > 1 /\ less(h, data, j, j - 1)
    THEN insertLeft(h, Swap(data, j, j - 1), j - 1)
    ELSE data

RECURSIVE insertionSort(_, _, _)
insertionSort(h, data, i) ==
    IF i > Len(data) THEN data
    ELSE insertionSort(h, insertLeft(h, data, i), i + 1)

sortSlice(h, data) == insertionSort(h, data, 2)

\* fmt.Sprintf("array[%s]", schema.Value.Items.Value.Type)
arrayType(itemType) == "array[" \o itemType \o "]"

emit(parameter, path, schema, h) ==
    [parameters |-> <<parameter>>,
     walk |-> <<[path |-> path, node |-> schema]>>,
     schemas |-> h]

RECURSIVE traverse(_, _, _, _, _)
RECURSIVE traverseAll(_, _, _, _, _, _, _)

\* the loop `for _, property := range properties`, from element i on
traverseAll(h, ord, properties, i, parent, path, acc) ==
    IF i > Len(properties) THEN [acc EXCEPT !.schemas = h]
    ELSE LET sub == traverse(h, ord, properties[i].ref, parent,
                             Append(path, properties[i].key))
         IN traverseAll(sub.schemas, ord, properties, i + 1, parent, path,
                        [parameters |-> appendAll(acc.parameters, sub.parameters),
                         walk |-> appendAll(acc.walk, sub.walk),
                         schemas |-> sub.schemas])

traverse(h, ord, schema, parent, path) ==
    LET tag == ToLower(h[schema].Type) IN
    CASE tag = "object" ->
           LET parameter == setParent(setNode(h, schema), parent)
               h1 == rangeProperties(h, schema, ord[schema], 1)
               properties == sortSlice(h1, propertySlice(h1, schema, ord[schema]))
           IN traverseAll(h1, ord, properties, 1, parameter.Name, path,
                          emit(parameter, path, schema, h1))
      [] tag = "array" ->
           LET items == h[schema].Items
               parameter == [setParent(setNode(h, schema), parent)
                               EXCEPT !.DataType = arrayType(h[items].Type)]
           IN IF h[items].Type = "object"
              THEN LET h1 == rangeProperties(h, items, ord[items], 1)
                       properties == sortSlice(h1, propertySlice(h1, items, ord[items]))
                   IN traverseAll(h1, ord, properties, 1, parameter.Name, path,
                                  emit(parameter, path, schema, h1))
              ELSE emit(parameter, path, schema, h)
      [] tag \in {"string", "number", "integer", "boolean"} ->
           emit(setParent(setPlain(h, schema), parent), path, schema, h)
      [] OTHER -> [parameters |-> <<>>, walk |-> <<>>, schemas |-> h]

-----------------------------------------------------------------------------
(* The schema heaps of the model: acyclic (a node refers to later nodes    *)
(* only: a cyclic schema never returns from traverse), a node nothing      *)
(* refers to is blank, and fields traverse never reads are empty.  Nested  *)
(* heaps have MaxNodes nodes whose objects declare properties among Keys,  *)
(* in every shape and with shared nodes; wide heaps have one object of up  *)
(* to MaxProps properties.                                                 *)

Nodes == 1..MaxNodes

Schema(type, properties, required, items) ==
    [Type |-> type, Title |-> "", Nullable |-> FALSE, Description |-> "",
     Properties |-> properties, Required |-> required, Items |-> items]

Blank == Schema("file", <<>>, <<>>, NULL)

Later(n) == {m \in Nodes : m > n}

PropertyMaps(n) == UNION {[ks -> Later(n)] : ks \in SUBSET Keys}

\* the required lists over the declared properties, in one order each
RECURSIVE SetToSeq(_)
SetToSeq(S) ==
    IF S = {} THEN <<>>
    ELSE LET x == CHOOSE y \in S : TRUE IN <<x>> \o SetToSeq(S \ {x})

SchemaChoices(n) ==
    {Schema(t, <<>>, <<>>, NULL) : t \in LeafTags}
    \cup UNION {{Schema(t, p, SetToSeq(r), NULL) : t \in ObjectTags, r \in SUBSET DOMAIN p}
                   : p \in PropertyMaps(n)}
    \cup {Schema(t, <<>>, <<>>, m) : t \in ArrayTags, m \in Later(n)}

Refs(s) == {s.Properties[k] : k \in DOMAIN s.Properties} \cup ({s.Items} \ {NULL})

RECURSIVE HeapsFrom(_, _)
HeapsFrom(n, referred) ==
    IF n > MaxNodes THEN {<<>>}
    ELSE UNION {{<<s>> \o rest : rest \in HeapsFrom(n + 1, referred \cup Refs(s))}
                   : s \in (IF n \in referred THEN SchemaChoices(n) ELSE {Blank})}

NestedHeaps == HeapsFrom(1, {1})

\* the heaps that hold one wide schema: node 1 declares width properties,
\* property i is node i + 1 and has type types[i]; an array property has
\* the last node, a string, for its items
WideKeys == <<"a", "b", "c", "d", "e", "f">>
WideTags == {"string", "object", "array"}

WideHeap(width, types) ==
    <<Schema("object", [k \in {WideKeys[i] : i \in 1..width} |->
                           1 + CHOOSE i \in 1..width : WideKeys[i] = k],
             <<>>, NULL)>>
    \o [i \in 1..width |->
           Schema(types[i], <<>>, <<>>, IF types[i] = "array" THEN width + 2 ELSE NULL)]
    \o <<Schema("string", <<>>, <<>>, NULL)>>

WideHeaps ==
    UNION {{WideHeap(width, types) : types \in [1..width -> WideTags]}
              : width \in (Cardinality(Keys) + 1)..MaxProps}

Heaps == NestedHeaps \cup WideHeaps

\* the orders a range over a map with key set S may take
Orders(S) == {o \in [1..Cardinality(S) -> S] : \A i, j \in 1..Cardinality(S) : o[i] = o[j] => i = j}

RECURSIVE RangeOrdersFrom(_, _)
RangeOrdersFrom(h, n) ==
    IF n > Len(h) THEN {<<>>}
    ELSE {<<o>> \o rest : o \in Orders(DOMAIN h[n].Properties),
                          rest \in RangeOrdersFrom(h, n + 1)}

RangeOrders(h) == RangeOrdersFrom(h, 1)

NoDocument == [Info |-> <<>>, SecuritySchemes |-> <<>>, Paths |-> <<>>]
NoDesign == [Info |-> <<>>, Resources |-> <<>>]

-----------------------------------------------------------------------------
(* SpecTraverse: one call traverse(schema, "root") on the root schema of   *)
(* a document, as getRqBody and getRsBody make it.                         *)

Root == 1

InitTraverse ==
    /\ schemas \in Heaps
    /\ swagger = NoDocument
    /\ pc = "call"
    /\ parameters = <<>>
    /\ walk = <<>>
    /\ resources = <<>>
    /\ idx = 0
    /\ design = NoDesign

Traverse ==
    /\ pc = "call"
    /\ \E ord \in RangeOrders(schemas) :
          LET r == traverse(schemas, ord, Root, "root", <<>>) IN
          /\ parameters' = r.parameters
          /\ walk' = r.walk
          /\ schemas' = r.schemas
    /\ pc' = "returned"
    /\ UNCHANGED <<swagger, resources, idx, design>>

NextTraverse == Traverse

SpecTraverse == InitTraverse /\ [][NextTraverse]_vars

-----------------------------------------------------------------------------
(* The extractors of getResourceContent.  A nil slice is <<>> and a nil    *)
(* map the empty function <<>>.                                            *)

\* a nil pointer to an operation or a request body
Nil == [nil |-> TRUE]

\* strings.Compare(a, b) == 0
Same(a, b) == a = b

getAuthenticationOptional(sw, order) ==
    [i \in 1..Len(order) |->
        LET value == sw.SecuritySchemes[order[i]] IN
        [Parameter EXCEPT !.Name = value.Name,
                          !.Location = value.In,
                          !.DataType = value.Type,
                          !.Required = FALSE,
                          !.Description = value.Description]]

\* order: the order the range over SecuritySchemes yields the scheme keys
getAuthentication(sw, order) ==
    [i \in 1..Len(order) |->
        LET value == sw.SecuritySchemes[order[i]] IN
        [Parameter EXCEPT !.Name = value.Name,
                          !.Location = value.In,
                          !.DataType = value.Type,
                          !.Required = TRUE,
                          !.Description = value.Description]]

getPathParameter(sw, endpoint) ==
    LET declared == sw.Paths[endpoint].Parameters IN
    [i \in 1..Len(declared) |->
        [Parameter EXCEPT !.Name = declared[i].Name,
                          !.Location = declared[i].In,
                          !.DataType = declared[i].Type,
                          !.Required = declared[i].Required,
                          !.Description = declared[i].Description]]

\* the switch on strings.ToLower(method) every extractor opens with;
\* Nil stands for its default branch
operationOf(pathItem, method) ==
    CASE ToLower(method) = "get" -> pathItem.Get
      [] ToLower(method) = "post" -> pathItem.Post
      [] ToLower(method) = "put" -> pathItem.Put
      [] ToLower(method) = "patch" -> pathItem.Patch
      [] ToLower(method) = "delete" -> pathItem.Delete
      [] OTHER -> Nil

getParameter(sw, endpoint, method, location) ==
    LET operation == operationOf(sw.Paths[endpoint], method) IN
    IF operation = Nil THEN <<>>
    ELSE LET matching == SelectSeq(operation.Parameters,
                 LAMBDA value : Same(ToLower(value.In), ToLower(location)))
         IN [i \in 1..Len(matching) |->
                [Parameter EXCEPT !.Name = matching[i].Name,
                                  !.Location = ToLower(matching[i].In),
                                  !.DataType = ToLower(matching[i].Type),
                                  !.Required = matching[i].Required,
                                  !.Description = matching[i].Description]]

\* json.Marshal of an example literal
Marshal(value) ==
    CASE value = 0 -> "0"
      [] value = 1 -> "1"
      [] OTHER -> "null"

\* the traversals of one body: Content is ranged over, each media type's
\* schema is flattened and the heap is handed on
RECURSIVE traverseContent(_, _, _, _, _)
traverseContent(h, ord, content, types, acc) ==
    IF types = <<>> THEN [content |-> acc, schemas |-> h]
    ELSE LET r == traverse(h, ord, content[Head(types)].Schema, "root", <<>>)
         IN traverseContent(r.schemas, ord, content, Tail(types),
                            [t \in DOMAIN acc \cup {Head(types)} |->
                                IF t = Head(types) THEN r.parameters ELSE acc[t]])

getRqBody(sw, h, ord, endpoint, method) ==
    LET operation == operationOf(sw.Paths[endpoint], method) IN
    IF operation = Nil \/ operation.RequestBody = Nil
    THEN [content |-> <<>>, schemas |-> h]
    ELSE traverseContent(h, ord, operation.RequestBody.Content,
                         SetToSeq(DOMAIN operation.RequestBody.Content), <<>>)

\* a media type without examples gets no entry: the entry is made inside
\* the loop over its examples
examplesOf(content) ==
    [t \in {u \in DOMAIN content : DOMAIN content[u].Examples # {}} |->
        [key \in DOMAIN content[t].Examples |-> Marshal(content[t].Examples[key])]]

getRqBodyExample(sw, endpoint, method) ==
    LET operation == operationOf(sw.Paths[endpoint], method) IN
    IF operation = Nil \/ operation.RequestBody = Nil THEN <<>>
    ELSE examplesOf(operation.RequestBody.Content)

\* Responses["200"].Value.Headers: the map entry is dereferenced unchecked
getRsHeader(sw, endpoint, method) ==
    LET operation == operationOf(sw.Paths[endpoint], method) IN
    IF operation = Nil THEN [panicked |-> FALSE, parameters |-> <<>>]
    ELSE IF "200" \notin DOMAIN operation.Responses
    THEN [panicked |-> TRUE, parameters |-> <<>>]
    ELSE LET headers == operation.Responses["200"].Headers
             names == SetToSeq(DOMAIN headers)
         IN [panicked |-> FALSE,
             parameters |->
                [i \in 1..Len(names) |->
                    [Parameter EXCEPT !.Name = names[i],
                                      !.Location = "header",
                                      !.DataType = headers[names[i]].Type,
                                      !.Required = headers[names[i]].Required,
                                      !.Description = headers[names[i]].Description]]]

getRsBody(sw, h, ord, endpoint, method) ==
    LET operation == operationOf(sw.Paths[endpoint], method) IN
    IF operation = Nil \/ "200" \notin DOMAIN operation.Responses
    THEN [content |-> <<>>, schemas |-> h]
    ELSE traverseContent(h, ord, operation.Responses["200"].Content,
                         SetToSeq(DOMAIN operation.Responses["200"].Content), <<>>)

\* per status code, the examples of all its media types under their names
getRsBodyExample(sw, endpoint, method) ==
    LET operation == operationOf(sw.Paths[endpoint], method) IN
    IF operation = Nil THEN <<>>
    ELSE LET body == operation.Responses
             named(code) == UNION {DOMAIN body[code].Content[t].Examples
                                      : t \in DOMAIN body[code].Content}
         IN [code \in {c \in DOMAIN body : named(c) # {}} |->
                [key \in named(code) |->
                    LET t == CHOOSE u \in DOMAIN body[code].Content :
                                 key \in DOMAIN body[code].Content[u].Examples
                    IN Marshal(body[code].Content[t].Examples[key])]]

-----------------------------------------------------------------------------
(* getResource, getResourceContent, Transform.                             *)

\* the fields of an openapi3.PathItem that hold an operation, under the
\* method names PathItem.Operations() reports them by
Methods == {"CONNECT", "DELETE", "GET", "HEAD", "OPTIONS", "PATCH", "POST", "PUT", "TRACE"}

fieldOf(pathItem, method) ==
    CASE method = "CONNECT" -> pathItem.Connect
      [] method = "DELETE" -> pathItem.Delete
      [] method = "GET" -> pathItem.Get
      [] method = "HEAD" -> pathItem.Head
      [] method = "OPTIONS" -> pathItem.Options
      [] method = "PATCH" -> pathItem.Patch
      [] method = "POST" -> pathItem.Post
      [] method = "PUT" -> pathItem.Put
      [] method = "TRACE" -> pathItem.Trace

\* value.Operations(): every operation field that is set
Operations(pathItem) ==
    [method \in {m \in Methods : fieldOf(pathItem, m) # Nil} |-> fieldOf(pathItem, method)]

ResourceContent ==
    [RqHeader |-> <<>>, RqPath |-> <<>>, RqQuery |-> <<>>, RqBody |-> <<>>,
     RqBodyExample |-> <<>>, RsHeader |-> <<>>, RsBody |-> <<>>, RsBodyExample |-> <<>>]

newResourceVerbatim(path, method, value) ==
    [ResourceDefinition |-> value.Summary,
     Description |-> value.Description,
     Endpoint |-> path,
     TransportProtocol |-> "HTTPS",
     RequestVerb |-> method,
     ResourceContent |-> ResourceContent]

\* the body of getResource's inner loop
newResource(path, method, value) ==
    [ResourceDefinition |-> value.Summary,
     Description |-> value.Description,
     Endpoint |-> path,
     TransportProtocol |-> "HTTPS",
     RequestVerb |-> ToLower(method),
     ResourceContent |-> ResourceContent]

\* paths: the order the range over swagger.Paths takes; methods[path]: the
\* order the range over that path's Operations() takes
RECURSIVE getResource(_, _, _)
getResource(sw, paths, methods) ==
    IF paths = <<>> THEN <<>>
    ELSE LET path == Head(paths)
             operations == Operations(sw.Paths[path])
         IN [i \in 1..Len(methods[path]) |->
                newResource(path, methods[path][i], operations[methods[path][i]])]
            \o getResource(sw, Tail(paths), methods)

\* one iteration of getResourceContent's loop; panicked when getRsHeader
\* does not return.  schemas is the heap as the iteration leaves it.
fillResource(sw, h, ord, schemes, resource) ==
    LET rqAuth == getAuthentication(sw, schemes)
        authHeader == SelectSeq(rqAuth, LAMBDA parameter : Same(parameter.Location, "header"))
        authQuery == SelectSeq(rqAuth, LAMBDA parameter : Same(parameter.Location, "query"))
        rqPath == getPathParameter(sw, resource.Endpoint)
        rqHeader == getParameter(sw, resource.Endpoint, resource.RequestVerb, "header")
        rqQuery == getParameter(sw, resource.Endpoint, resource.RequestVerb, "query")
        rqBody == getRqBody(sw, h, ord, resource.Endpoint, resource.RequestVerb)
        rqBodyExample == getRqBodyExample(sw, resource.Endpoint, resource.RequestVerb)
        rsHeader == getRsHeader(sw, resource.Endpoint, resource.RequestVerb)
        rsBody == getRsBody(sw, rqBody.schemas, ord, resource.Endpoint, resource.RequestVerb)
        rsBodyExample == getRsBodyExample(sw, resource.Endpoint, resource.RequestVerb)
        content == resource.ResourceContent
    IN IF rsHeader.panicked
       THEN [panicked |-> TRUE, schemas |-> rqBody.schemas,
             resource |-> [resource EXCEPT !.ResourceContent =
                              [content EXCEPT !.RqHeader = (content.RqHeader \o authHeader) \o rqHeader,
                                              !.RqQuery = (content.RqQuery \o authQuery) \o rqQuery,
                                              !.RqPath = content.RqPath \o rqPath,
                                              !.RqBody = rqBody.content,
                                              !.RqBodyExample = rqBodyExample]]]
       ELSE [panicked |-> FALSE, schemas |-> rsBody.schemas,
             resource |-> [resource EXCEPT !.ResourceContent =
                              [RqHeader |-> (content.RqHeader \o authHeader) \o rqHeader,
                               RqPath |-> content.RqPath \o rqPath,
                               RqQuery |-> (content.RqQuery \o authQuery) \o rqQuery,
                               RqBody |-> rqBody.content,
                               RqBodyExample |-> rqBodyExample,
                               RsHeader |-> rsHeader.parameters,
                               RsBody |-> rsBody.content,
                               RsBodyExample |-> rsBodyExample]]]

getInfo(sw) ==
    [Title |-> sw.Info.Title, Version |-> sw.Info.Version, Description |-> sw.Info.Description]

-----------------------------------------------------------------------------
(* The documents of the model: two paths, four operation slots of which    *)
(* at most MaxOps are set, each from a catalogue of operations.            *)

ParameterDecl(name, in, type, required) ==
    [Name |-> name, In |-> in, Type |-> type, Required |-> required, Description |-> ""]

Header(type, required) == [Type |-> type, Required |-> required, Description |-> ""]

MediaType(schema, examples) == [Schema |-> schema, Examples |-> examples]

Json(mediaType) == [t \in {"application/json"} |-> mediaType]

Response(headers, content) == [Headers |-> headers, Content |-> content]

Operation(declared, requestBody, responses) ==
    [Summary |-> "", Description |-> "", Parameters |-> declared,
     RequestBody |-> requestBody, Responses |-> responses]

\* no parameters, no request body, no responses
OpEmpty == Operation(<<>>, Nil, <<>>)

\* an empty 200 response only
OpOk == Operation(<<>>, Nil, [c \in {"200"} |-> Response(<<>>, <<>>)])

\* a parameter of each location, and a response header
OpParams ==
    Operation(<<ParameterDecl("petId", "path", "integer", TRUE),
                ParameterDecl("limit", "Query", "Integer", FALSE),
                ParameterDecl("X-Trace", "header", "string", FALSE)>>,
              Nil,
              [c \in {"200"} |->
                  Response([n \in {"X-Rate-Limit"} |-> Header("integer", TRUE)], <<>>)])

\* a request body and a response body with examples
OpBody ==
    Operation(<<>>,
              [Content |-> Json(MediaType(1, [e \in {"ok"} |-> 1]))],
              [c \in {"200", "404"} |->
                  IF c = "200"
                  THEN Response(<<>>, Json(MediaType(1, [e \in {"ok", "empty"} |->
                                                           IF e = "ok" THEN 1 ELSE 0])))
                  ELSE Response(<<>>, <<>>)])

\* a 404 response only
OpNotFound == Operation(<<>>, Nil, [c \in {"404"} |-> Response(<<>>, <<>>)])

Catalogue == {OpEmpty, OpOk, OpParams, OpBody, OpNotFound}

Slots == {<<"/pets", "GET">>, <<"/pets", "POST">>,
          <<"/pets/{id}", "DELETE">>, <<"/pets/{id}", "HEAD">>}

PathParameterChoices ==
    {<<>>,
     <<ParameterDecl("id", "path", "integer", TRUE),
       ParameterDecl("X-Tenant", "Header", "string", TRUE)>>}

Scheme(name, in, type) == [Name |-> name, In |-> in, Type |-> type, Description |-> ""]

SchemeUniverse ==
    [k \in {"ApiKeyAuth", "TokenAuth", "BearerAuth"} |->
        CASE k = "ApiKeyAuth" -> Scheme("X-API-Key", "header", "apiKey")
          [] k = "TokenAuth" -> Scheme("token", "query", "apiKey")
          [] k = "BearerAuth" -> Scheme("", "", "http")]

\* the security schemes a document of the model declares
SchemeSets == {{}, {"ApiKeyAuth", "TokenAuth"}, {"ApiKeyAuth", "BearerAuth"}}

NoPathItem ==
    [Parameters |-> <<>>, Connect |-> Nil, Delete |-> Nil, Get |-> Nil, Head |-> Nil,
     Options |-> Nil, Patch |-> Nil, Post |-> Nil, Put |-> Nil, Trace |-> Nil]

\* the path item of path under an assignment of operations to the slots
PathItemOf(path, assigned, declared) ==
    LET at(method) == IF <<path, method>> \in Slots THEN assigned[<<path, method>>] ELSE Nil
    IN [NoPathItem EXCEPT !.Parameters = declared,
                          !.Get = at("GET"), !.Post = at("POST"),
                          !.Delete = at("DELETE"), !.Head = at("HEAD")]

Assignments ==
    {a \in [Slots -> Catalogue \cup {Nil}] :
        Cardinality({slot \in Slots : a[slot] # Nil}) <= MaxOps}

Document(assigned, declared, schemes) ==
    [Info |-> [Title |-> "Pets", Version |-> "1.0", Description |-> ""],
     SecuritySchemes |-> [k \in schemes |-> SchemeUniverse[k]],
     Paths |-> [path \in {"/pets", "/pets/{id}"} |->
                   PathItemOf(path, assigned, IF path = "/pets" THEN <<>> ELSE declared)]]

\* the component schemas the bodies of the catalogue refer to (node 1)
PetSchemas ==
    <<Schema("object", [k \in {"id", "name"} |-> IF k = "id" THEN 2 ELSE 3], <<"id">>, NULL),
      Schema("integer", <<>>, <<>>, NULL),
      Schema("string", <<>>, <<>>, NULL)>>

-----------------------------------------------------------------------------
(* Spec: one call Transform(swagger).                                      *)

Init ==
    /\ schemas = PetSchemas
    /\ \E assigned \in Assignments, declared \in PathParameterChoices,
          schemes \in SchemeSets :
          swagger = Document(assigned, declared, schemes)
    /\ pc = "start"
    /\ parameters = <<>>
    /\ walk = <<>>
    /\ resources = <<>>
    /\ idx = 0
    /\ design = NoDesign

\* for every path, an order the range over its Operations() may take
RECURSIVE MethodOrders(_, _)
MethodOrders(sw, paths) ==
    IF paths = {} THEN {<<>>}
    ELSE LET path == CHOOSE p \in paths : TRUE
         IN {(path :> o) @@ rest : o \in Orders(DOMAIN Operations(sw.Paths[path])),
                                   rest \in MethodOrders(sw, paths \ {path})}

\* getResource(swagger): the resource list, in the order the two ranges take
GetResource ==
    /\ pc = "start"
    /\ \E paths \in Orders(DOMAIN swagger.Paths),
          methods \in MethodOrders(swagger, DOMAIN swagger.Paths) :
          resources' = getResource(swagger, paths, methods)
    /\ idx' = 1
    /\ pc' = "content"
    /\ UNCHANGED <<schemas, swagger, parameters, walk, design>>

\* one iteration of the loop of getResourceContent
FillResource ==
    /\ pc = "content"
    /\ idx <= Len(resources)
    /\ \E ord \in RangeOrders(schemas), schemes \in Orders(DOMAIN swagger.SecuritySchemes) :
          LET r == fillResource(swagger, schemas, ord, schemes, resources[idx]) IN
          /\ resources' = [resources EXCEPT ![idx] = r.resource]
          /\ schemas' = r.schemas
          /\ pc' = IF r.panicked THEN "panicked" ELSE "content"
          /\ idx' = IF r.panicked THEN idx ELSE idx + 1
    /\ UNCHANGED <<swagger, parameters, walk, design>>

\* getResourceContent returns and Transform builds the Design
Return ==
    /\ pc = "content"
    /\ idx > Len(resources)
    /\ design' = [Info |-> getInfo(swagger), Resources |-> resources]
    /\ pc' = "done"
    /\ UNCHANGED <<schemas, swagger, parameters, walk, resources, idx>>

Next == GetResource \/ FillResource \/ Return

Spec == Init /\ [][Next]_vars

-----------------------------------------------------------------------------
(* What the claims about traverse speak of.  A record's position is the    *)
(* list of property names leading to it from the root schema; the          *)
(* structure of the document (Type, Properties, Required, Items) is never  *)
(* written, so it is read from the heap as the call left it.               *)

Returned == pc = "returned"

Records == 1..Len(parameters)

Front(path) == SubSeq(path, 1, Len(path) - 1)

Last(path) == path[Len(path)]

IsPrefix(p, q) == Len(p) <= Len(q) /\ SubSeq(q, 1, Len(p)) = p

\* the schema whose Properties a node's children are declared in
Holder(node) ==
    IF ToLower(schemas[node].Type) = "array" THEN schemas[node].Items ELSE node

\* the record emitted for position path, if any
RecordsAt(path) == {i \in Records : walk[i].path = path}

Recognized(type) ==
    ToLower(type) \in {"object", "array", "string", "number", "integer", "boolean"}

\* C2: the record emitted for a declared property p is required exactly
\* when p is in the required list of the schema that declares it, also
\* when one schema node is the value of several properties.
RequiredPropagation ==
    Returned =>
        \A i, j \in Records :
            (walk[i].path = Front(walk[j].path) /\ walk[j].path # <<>>) =>
                parameters[j].Required =
                    contains(schemas[Holder(walk[i].node)].Required, Last(walk[j].path))

\* C3: an array node emits one record, typed array[<lowercase item type>];
\* the properties of an object item (in any letter case) follow it with the
\* array's name as parent, and any other item type adds no record.
ArrayFlattening ==
    Returned =>
        \A i \in Records :
            ToLower(schemas[walk[i].node].Type) = "array" =>
                LET items == schemas[walk[i].node].Items
                    below == {j \in Records : /\ IsPrefix(walk[i].path, walk[j].path)
                                              /\ walk[j].path # walk[i].path}
                IN /\ RecordsAt(walk[i].path) = {i}
                   /\ parameters[i].DataType = arrayType(ToLower(schemas[items].Type))
                   /\ IF ToLower(schemas[items].Type) = "object"
                      THEN \A k \in DOMAIN schemas[items].Properties :
                              Recognized(schemas[schemas[items].Properties[k]].Type) =>
                                  \E j \in below :
                                      /\ walk[j].path = Append(walk[i].path, k)
                                      /\ j > i
                                      /\ parameters[j].Parent = parameters[i].Name
                      ELSE below = {}

\* C8: a node's own record comes before the records of all its
\* descendants, and the records of one subtree are contiguous.
DepthFirstOrder ==
    Returned =>
        /\ \A i, j \in Records :
              (IsPrefix(walk[i].path, walk[j].path) /\ i # j) => i < j
        /\ \A i, j, k \in Records :
              (i < j /\ j < k /\ IsPrefix(walk[i].path, walk[k].path)) =>
                  IsPrefix(walk[i].path, walk[j].path)

\* a property with a nested subtree is followed by a sibling property
DepthFirstWitness ==
    /\ Returned
    /\ \E i, j, k \in Records :
          /\ i < j /\ j < k
          /\ Len(walk[i].path) = 1
          /\ Len(walk[j].path) = 2 /\ IsPrefix(walk[i].path, walk[j].path)
          /\ Len(walk[k].path) = 1

ParentLinks ==
    Returned =>
        /\ parameters # <<>> => parameters[1].Parent = "root"
        /\ \A i \in Records :
              /\ Recognized(schemas[walk[i].node].Type)
              /\ i > 1 =>
                    \E j \in 1..(i - 1) :
                        /\ walk[j].path = Front(walk[i].path)
                        /\ parameters[j].Name = parameters[i].Parent

\* a property record, beside a property of unrecognized type that is skipped
ParentLinksWitness ==
    /\ Returned
    /\ Len(parameters) >= 2
    /\ \E k \in DOMAIN schemas[Root].Properties :
          /\ ~Recognized(schemas[schemas[Root].Properties[k]].Type)
          /\ RecordsAt(<<k>>) = {}

-----------------------------------------------------------------------------
(* What the claims about Transform speak of.                               *)

Done == pc = "done"

\* the (path, method) pairs the document declares an operation for
Declared ==
    {pm \in (DOMAIN swagger.Paths) \X Methods : fieldOf(swagger.Paths[pm[1]], pm[2]) # Nil}

Supported == {"get", "post", "put", "patch", "delete"}

ResourcesOf(list, path, method) ==
    {i \in 1..Len(list) : list[i].Endpoint = path /\ list[i].RequestVerb = ToLower(method)}

ContentEmpty(content) ==
    /\ content.RqHeader = <<>> /\ content.RqPath = <<>> /\ content.RqQuery = <<>>
    /\ content.RqBody = <<>> /\ content.RqBodyExample = <<>>
    /\ content.RsHeader = <<>> /\ content.RsBody = <<>> /\ content.RsBodyExample = <<>>

\* C1: Transform completes on every document, and an operation with no
\* parameters, no request body and no responses (in a document without
\* security schemes and path-level parameters) gets a Resource whose
\* content fields are all empty.
TransformNeverFails ==
    /\ pc # "panicked"
    /\ Done =>
          \A pm \in Declared :
              LET operation == fieldOf(swagger.Paths[pm[1]], pm[2]) IN
              ( /\ operation.Parameters = <<>>
                /\ operation.RequestBody = Nil
                /\ operation.Responses = <<>>
                /\ swagger.SecuritySchemes = <<>>
                /\ swagger.Paths[pm[1]].Parameters = <<>> ) =>
                  \E i \in ResourcesOf(design.Resources, pm[1], pm[2]) :
                      ContentEmpty(design.Resources[i].ResourceContent)

\* the list of a Resource's content for a location
ListFor(content, location) ==
    CASE location = "header" -> content.RqHeader
      [] location = "query" -> content.RqQuery
      [] location = "path" -> content.RqPath

\* C4: every parameter declared for location L, at path level or on the
\* operation, is in the Resource's list for L with location lowercase L,
\* and no parameter declared for another location is in that list.
\* Stated for the Resources of the five methods the extractors know, where
\* it does not rest on how other methods are treated.
ParametersByLocation ==
    Done =>
        \A i \in {n \in 1..Len(design.Resources) : design.Resources[n].RequestVerb \in Supported} :
            LET resource == design.Resources[i]
                pathItem == swagger.Paths[resource.Endpoint]
                operation == CHOOSE o \in {fieldOf(pathItem, m) : m \in Methods} :
                                 \E m \in Methods : /\ ToLower(m) = resource.RequestVerb
                                                    /\ o = fieldOf(pathItem, m)
                declared == pathItem.Parameters \o operation.Parameters
            IN \A location \in {"header", "query", "path"} :
               \A d \in 1..Len(declared) :
                   LET listed == \E k \in 1..Len(ListFor(resource.ResourceContent, location)) :
                                     ListFor(resource.ResourceContent, location)[k].Name
                                         = declared[d].Name
                   IN IF ToLower(declared[d].In) = location
                      THEN \E k \in 1..Len(ListFor(resource.ResourceContent, location)) :
                              /\ ListFor(resource.ResourceContent, location)[k].Name
                                     = declared[d].Name
                              /\ ListFor(resource.ResourceContent, location)[k].Location
                                     = location
                      ELSE ~listed

\* C5 as claimed: one Resource per declared operation of a supported
\* method, and none for an operation of any other method.
UnsupportedMethodsSkipped ==
    Done =>
        /\ \A pm \in Declared :
              ToLower(pm[2]) \in Supported =>
                  Cardinality(ResourcesOf(design.Resources, pm[1], pm[2])) = 1
        /\ \A i \in 1..Len(design.Resources) :
              design.Resources[i].RequestVerb \in Supported

\* C5 as the code has it: getResource makes one Resource for every
\* operation the document declares, of any of the nine methods, with the
\* lowercased method and the path; Transform returns that list.
ResourcePerOperation ==
    /\ pc # "start" =>
          /\ \A pm \in Declared : Cardinality(ResourcesOf(resources, pm[1], pm[2])) = 1
          /\ Len(resources) = Cardinality(Declared)
    /\ Done =>
          /\ Len(design.Resources) = Len(resources)
          /\ \A i \in 1..Len(resources) :
                /\ design.Resources[i].Endpoint = resources[i].Endpoint
                /\ design.Resources[i].RequestVerb = resources[i].RequestVerb

\* Transform returned a Resource for a HEAD operation beside one for a
\* supported method
ResourcePerOperationWitness ==
    /\ Done
    /\ \E i, j \in 1..Len(design.Resources) :
          /\ design.Resources[i].RequestVerb = "head"
          /\ design.Resources[j].RequestVerb \in Supported

\* C6: the input document is only read: no step of Transform changes a
\* schema node.
SchemasUnchanged == [][schemas' = schemas]_vars

\* the record a security scheme yields
IsSchemeRecord(parameter, scheme) ==
    /\ parameter.Name = scheme.Name
    /\ parameter.DataType = scheme.Type
    /\ parameter.Location = scheme.In

Count(list, scheme) ==
    Cardinality({k \in 1..Len(list) : IsSchemeRecord(list[k], scheme)})

\* C7: every Resource Transform returns has, for each security scheme
\* located in the header, exactly one record in request_header, required;
\* for each scheme located in the query exactly one in request_query,
\* required, and none in request_header.
SecurityParameters ==
    Done =>
        \A i \in 1..Len(design.Resources) :
        \A key \in DOMAIN swagger.SecuritySchemes :
            LET scheme == swagger.SecuritySchemes[key]
                content == design.Resources[i].ResourceContent
            IN /\ scheme.In = "header" =>
                     /\ Count(content.RqHeader, scheme) = 1
                     /\ \A k \in 1..Len(content.RqHeader) :
                           IsSchemeRecord(content.RqHeader[k], scheme) =>
                               content.RqHeader[k].Required
               /\ scheme.In = "query" =>
                     /\ Count(content.RqQuery, scheme) = 1
                     /\ \A k \in 1..Len(content.RqQuery) :
                           IsSchemeRecord(content.RqQuery[k], scheme) =>
                               content.RqQuery[k].Required
                     /\ \A k \in 1..Len(content.RqHeader) :
                           content.RqHeader[k].Name # scheme.Name

\* a document with a header scheme and a query scheme, two Resources
\* returned, one of them with header parameters of its own
SecurityParametersWitness ==
    /\ Done
    /\ Len(design.Resources) = 2
    /\ \E key \in DOMAIN swagger.SecuritySchemes : swagger.SecuritySchemes[key].In = "header"
    /\ \E key \in DOMAIN swagger.SecuritySchemes : swagger.SecuritySchemes[key].In = "query"
    /\ \E i \in 1..Len(design.Resources) :
          Len(design.Resources[i].ResourceContent.RqHeader) = 2

=============================================================================
